---- MODULE Spec2Model ----
(***************************************************************************)
(* ads2gephi: the citation-network engine of src/ads2gephi/ads2gephi.py.   *)
(*                                                                         *)
(* A CitationNetwork object owns a Database (two tables, nodes and edges)  *)
(* and a snapshot of the node rows taken by its constructor.  Sampling     *)
(* writes node rows, the edge generators write edge rows, and              *)
(* assign_modularity updates the cluster_id column.                        *)
(*                                                                         *)
(* Encodings.  A Python str is a sequence of one-character strings where   *)
(* its characters are inspected (author names), and a sequence of tokens   *)
(* where only its '; '-separated items are (the citation and reference     *)
(* columns).  A bibcode is the token pair <<year, tag>>: its first four   *)
(* characters, which the code reads with bc[0:4], and the rest.  None is   *)
(* <<>> and a present value v is <<v>>.  self.edgelist is assigned by the   *)
(* constructor and never read, so it is not a variable of the model.  No   *)
(* code reads the order or the ids of the edge rows, so the edges table is *)
(* the bag of its (source, target, weight) rows.                           *)
(***************************************************************************)
EXTENDS Integers, Sequences, FiniteSets, Bags, TLC

VARIABLES
    db_nodes,   \* rows of Database.nodes, in id order: row i has id i
    db_edges,   \* rows of Database.edges: the bag of (source, target, weight)
    nodelist,   \* CitationNetwork.nodelist: the rows read at construction
    last,       \* the last call on the objects: its name, arguments, result
    attempts    \* history of the last call where it is kept (SpecFetch): for
                \* each bibcode the call went to fetch, in order, the bibcode
                \* and ADS's answers to the attempts made

vars == <<db_nodes, db_edges, nodelist, last, attempts>>

None == <<>>
Some(v) == <<v>>
Range(s) == {s[i] : i \in DOMAIN s}

\* the element of a singleton.  Python computes the value of an expression
\* once and binds it to a name; The({F(x) : x \in {e}}) is F of the value of e
The(S) == CHOOSE x \in S : TRUE

\* ------------------------------------------------------------------ bounds

\* longest bibcode_list handed to a judgement sample
MaxBatch == 2
\* direct write_edge / write_edges calls stop at this many edge rows
MaxEdgeRows == 2
\* the most attempts in a row for which ADS raises on one bibcode
MaxFailures == 5
\* the most bibcodes ADS raises on in one call
MaxFailing == 1

\* range(5): the attempts of one fetch
RetryLimit == 5

\* -------------------------------------------------------------- str helpers

\* s[i:] starts with sep
StartsAt(s, sep, i) ==
    /\ i + Len(sep) - 1 <= Len(s)
    /\ \A k \in 1..Len(sep) : s[i + k - 1] = sep[k]

\* str.find(sep): the first index at which sep occurs in s, 0 when it does not
Find(s, sep) ==
    LET hits == {i \in 1..Len(s) : StartsAt(s, sep, i)}
    IN  IF hits = {} THEN 0 ELSE CHOOSE i \in hits : \A j \in hits : i <= j

\* str.split(sep): the list of the parts of s between occurrences of sep
RECURSIVE Split(_, _)
Split(s, sep) ==
    LET i == Find(s, sep)
    IN  IF i = 0 THEN <<s>>
        ELSE <<SubSeq(s, 1, i - 1)>> \o Split(SubSeq(s, i + Len(sep), Len(s)), sep)

\* sep.join(parts)
RECURSIVE Join(_, _)
Join(parts, sep) ==
    IF parts = <<>> THEN <<>>
    ELSE IF Len(parts) = 1 THEN parts[1]
    ELSE parts[1] \o sep \o Join(Tail(parts), sep)

RECURSIVE Flatten(_)
Flatten(ss) == IF ss = <<>> THEN <<>> ELSE ss[1] \o Flatten(Tail(ss))

\* the separators the code joins and splits with
SemiSp == <<";", " ">>
CommaSp == <<",", " ">>
Space == <<" ">>
\* '; ' as one token of a citation / reference column
SepTok == <<"; ">>

\* '; '.join(list of bibcodes): the column value
JoinBibcodes(bcs) == Join(bcs, SepTok)

\* column.split('; '): the list of items of a citation / reference column
SplitBibcodes(col) == Split(col, SepTok)

\* int(s) for the four-character year prefixes that occur
IntOf(s) ==
    CASE s = "1963" -> 1963
      [] s = "1968" -> 1968
      [] s = "1975" -> 1975
      [] s = "2012" -> 2012

\* ------------------------------------------------------- difflib.SequenceMatcher

\* SequenceMatcher.find_longest_match(alo, ahi, blo, bhi), 1-based and
\* inclusive: the longest common block, of those the one starting earliest
\* in a, of those the one starting earliest in b; <<alo, blo, 0>> when none
FindLongestMatch(a, b, alo, ahi, blo, bhi) ==
    LET blocks == {t \in (alo..ahi) \X (blo..bhi) \X (1..(ahi - alo + 1)) :
                     /\ t[1] + t[3] - 1 <= ahi
                     /\ t[2] + t[3] - 1 <= bhi
                     /\ \A k \in 0..(t[3] - 1) : a[t[1] + k] = b[t[2] + k]}
        Better(t, u) ==
            \/ t[3] > u[3]
            \/ t[3] = u[3] /\ t[1] < u[1]
            \/ t[3] = u[3] /\ t[1] = u[1] /\ t[2] <= u[2]
    IN  IF blocks = {} THEN <<alo, blo, 0>>
        ELSE CHOOSE t \in blocks : \A u \in blocks : Better(t, u)

\* the total size of SequenceMatcher.get_matching_blocks()
RECURSIVE MatchSize(_, _, _, _, _, _)
MatchSize(a, b, alo, ahi, blo, bhi) ==
    IF alo > ahi \/ blo > bhi THEN 0
    ELSE The({IF m[3] = 0 THEN 0
              ELSE m[3] + MatchSize(a, b, alo, m[1] - 1, blo, m[2] - 1)
                        + MatchSize(a, b, m[1] + m[3], ahi, m[2] + m[3], bhi) :
              m \in {FindLongestMatch(a, b, alo, ahi, blo, bhi)}})

\* SequenceMatcher(None, a, b).ratio() = 2.0 * matches / (len(a) + len(b)),
\* 1.0 when both are empty: the fraction <<numerator, denominator>>
Ratio(a, b) ==
    IF Len(a) + Len(b) = 0 THEN <<1, 1>>
    ELSE <<2 * MatchSize(a, b, 1, Len(a), 1, Len(b)), Len(a) + Len(b)>>

\* ------------------------------------------------------------ author_is_same

\* name_split[1].split(' ')[0][0], '' on IndexError
Initial(name_split) ==
    IF Len(name_split) < 2 THEN <<>>
    ELSE The({IF given = <<>> THEN <<>> ELSE <<given[1]>> :
              given \in {Split(name_split[2], Space)[1]}})

\* the score of author_is_same as the fraction <<numerator, denominator>>:
\* (ratio(initials) + ratio(last names)) / 2.0
AuthorScore(author1, author2) ==
    The({The({<<r1[1] * r2[2] + r2[1] * r1[2], 2 * r1[2] * r2[2]>> :
                 r1 \in {Ratio(Initial(name1_split), Initial(name2_split))},
                 r2 \in {Ratio(name1_split[1], name2_split[1])}}) :
         name1_split \in {Split(Split(author1, SemiSp)[1], CommaSp)},
         name2_split \in {Split(Split(author2, SemiSp)[1], CommaSp)}})

\* CitationNetwork.author_is_same on the author columns of two rows:
\* score > 0.80.  The comparison is exact: the only scores the floating
\* point sum can round are the ones equal to 0.8, and (1.0 + 0.6) / 2.0 and
\* (0.8 + 0.8) / 2.0 both give the double 0.8, which is not > 0.80.
author_is_same(author1, author2) ==
    \E s \in {AuthorScore(author1, author2)} : 5 * s[1] > 4 * s[2]

\* ------------------------------------------------- the ADS holdings (provider)

BibS == <<"1968", "S">>
BibA == <<"2012", "A">>
BibB == <<"1975", "B">>
BibC == <<"1963", "C">>
Bibcodes == {BibS, BibA, BibB, BibC}

ArpH == <<"A", "r", "p", ",", " ", "H", ".">>
ArpHalton == <<"A", "r", "p", ",", " ", "H", "a", "l", "t", "o", "n">>
BergB == <<"B", "e", "r", "g", ",", " ", "B", ".">>
ColeC == <<"C", "o", "l", "e", ",", " ", "C", ".">>

\* what ads.SearchQuery(bibcode=bc, fl=[...]) yields: S is cited by A and B
\* and cites C; A and B cite S and C; A and S have the same first author
Article(bc) ==
    CASE bc = BibS -> [bibcode |-> BibS, author |-> <<ArpH>>,
                       citation |-> Some(<<BibA, BibB>>), reference |-> Some(<<BibC>>)]
      [] bc = BibA -> [bibcode |-> BibA, author |-> <<ArpHalton, ColeC>>,
                       citation |-> None, reference |-> Some(<<BibS, BibC>>)]
      [] bc = BibB -> [bibcode |-> BibB, author |-> <<BergB>>,
                       citation |-> None, reference |-> Some(<<BibS, BibC>>)]
      [] bc = BibC -> [bibcode |-> BibC, author |-> <<ColeC>>,
                       citation |-> Some(<<BibS, BibA, BibB>>), reference |-> None]

\* the bibcodes a curated list (bibcode_list, or a direct write_node) names
Seeds == {BibS}

\* (StartYear, EndYear) pairs the configuration file may hold
YearIntervals ==
    {<<1900, 2020>>, <<1900, 1975>>, <<1963, 2012>>, <<1975, 2012>>, <<1963, 1963>>}
ScopeArgs == {"cit", "ref", "citref", "cit+ref", "both"}
DirectionArgs == {"fwd", "bwd", "both"}
MeasureArgs == {"cocit", "bibcp", "both"}

\* ------------------------------------------------------------------- Node

\* Node.__init__(ads_obj); cluster_id starts None
Node(ads_obj) ==
    [bibcode |-> ads_obj.bibcode,
     author |-> Join(ads_obj.author, SemiSp),
     citation |-> ads_obj.citation,
     reference |-> ads_obj.reference,
     cluster_id |-> None]

\* Node(item) for the item ADS yields for each bibcode, computed once
Fetched == [bc \in Bibcodes |-> Node(Article(bc))]

\* --------------------------------------------------------------- Database

\* Database.get_all_nodes, as CitationNetwork keeps it in self.nodelist: of
\* each row the columns the methods read (id, bibcode, author, citation,
\* reference); the cluster_id of the snapshot is never read
get_all_nodes(nodes) ==
    [i \in DOMAIN nodes |->
        [id |-> nodes[i].id, bibcode |-> nodes[i].bibcode, author |-> nodes[i].author,
         citation |-> nodes[i].citation, reference |-> nodes[i].reference]]

\* Database.get_node(bibcode): the first row with that bibcode, or None
get_node(nodes, bibcode) ==
    LET hits == {i \in DOMAIN nodes : nodes[i].bibcode = bibcode}
    IN  IF hits = {} THEN None
        ELSE Some(nodes[CHOOSE i \in hits : \A j \in hits : i <= j])

\* Database.is_in_db('node', item): a row with the node's bibcode exists
is_in_db_node(nodes, item) == \E i \in DOMAIN nodes : nodes[i].bibcode = item.bibcode

\* is_in_db('edge', item) comparing the weight as well
is_in_db_edge_with_weight(edges, item) == item \in BagToSet(edges)

\* Database.is_in_db('edge', item): a row with the edge's source and target
is_in_db_edge(edges, item) ==
    \E e \in BagToSet(edges) : e[1] = item[1] /\ e[2] = item[2]

\* the row write_node / write_nodes insert for a Node; id is the next rowid
NodeRow(nodes, node) ==
    [id |-> Len(nodes) + 1,
     bibcode |-> node.bibcode,
     author |-> node.author,
     citation |-> IF node.citation # None
                  THEN Some(JoinBibcodes(node.citation[1])) ELSE None,
     reference |-> IF node.reference # None
                   THEN Some(JoinBibcodes(node.reference[1])) ELSE None,
     cluster_id |-> node.cluster_id]

\* Database.write_node(node): the table afterwards
write_node(nodes, node) ==
    IF ~is_in_db_node(nodes, node) THEN Append(nodes, NodeRow(nodes, node))
    ELSE nodes

\* write_nodes with the membership test made once, against the table as it
\* was before the batch
write_nodes_stale_test(nodes, node_list) ==
    LET fresh == SelectSeq(node_list, LAMBDA node :
                     node # None /\ ~is_in_db_node(nodes, node[1]))
    IN  nodes \o [i \in DOMAIN fresh |->
                    [NodeRow(nodes, fresh[i][1]) EXCEPT !.id = Len(nodes) + i]]

\* Database.write_nodes(node_list): entries that are not Node objects (the
\* None of a failed query) are passed over
RECURSIVE write_nodes(_, _)
write_nodes(nodes, node_list) ==
    IF node_list = <<>> THEN nodes
    ELSE LET node == Head(node_list)
             after == IF node # None /\ ~is_in_db_node(nodes, node[1])
                      THEN Append(nodes, NodeRow(nodes, node[1]))
                      ELSE nodes
         IN  The({write_nodes(written, Tail(node_list)) : written \in {after}})

\* Database.write_edge(edge): the table afterwards
write_edge(edges, edge) ==
    IF ~is_in_db_edge(edges, edge) THEN edges (+) SetToBag({edge}) ELSE edges

\* Database.write_edges(edgelist)
RECURSIVE write_edges(_, _)
write_edges(edges, edgelist) ==
    IF edgelist = <<>> THEN edges
    ELSE The({write_edges(written, Tail(edgelist)) :
                 written \in {write_edge(edges, Head(edgelist))}})

\* Database.set_node_cluster(node_id, value)
set_node_cluster(nodes, node_id, value) ==
    [i \in DOMAIN nodes |->
        IF nodes[i].id = node_id
        THEN [nodes[i] EXCEPT !.cluster_id = Some(value)]
        ELSE nodes[i]]

\* -------------------------------------------------------- CitationNetwork

\* ADS in one call: failures[bc] is the number of attempts in a row, from
\* the first, in which the query for bc raises (IndexError, APIResponseError)
\* before it yields the article.  Every bibcode is one ADS holds.
FailureCounts == 0..MaxFailures
NoFailures == [bc \in Bibcodes |-> 0]
FailuresOf(down) == [bc \in Bibcodes |-> IF bc \in down THEN RetryLimit ELSE 0]
FailurePatterns(queried) ==
    UNION {{[bc \in Bibcodes |-> IF bc \in failing THEN f[bc] ELSE 0] :
                f \in [failing -> FailureCounts \ {0}]} :
           failing \in {q \in SUBSET queried : Cardinality(q) <= MaxFailing}}

\* the retry loop going through the attempts without leaving at an answer
RECURSIVE TriesAll(_, _)
TriesAll(i, failing) ==
    IF i > RetryLimit THEN <<>>
    ELSE <<IF i > failing THEN "item" ELSE "error">> \o TriesAll(i + 1, failing)

\* the loop `for i in range(5)` of getby_bibcode and smp_snowball from
\* attempt i on: ADS's answers to the queries made.  An answer ends the loop
\* (return, break), an exception goes on to the next attempt (continue).
RECURSIVE Tries(_, _)
Tries(i, failing) ==
    IF i > RetryLimit THEN <<>>
    ELSE IF i > failing THEN <<"item">>
    ELSE <<"error">> \o Tries(i + 1, failing)

\* CitationNetwork.getby_bibcode(bibcode): the Node of the answer, or None
\* when every attempt has raised and the method falls off its end
getby_bibcode(bibcode, failures) ==
    IF "item" \in Range(Tries(1, failures[bibcode]))
    THEN Some(Fetched[bibcode]) ELSE None

\* the year test left out: every listed bibcode passes
InInterval_every_year(bc, start_year, end_year) ==
    start_year <= end_year \/ IntOf(bc[1]) >= 0

\* start_year < int(bc[0:4]) < end_year
InInterval(bc, start_year, end_year) ==
    start_year < IntOf(bc[1]) /\ IntOf(bc[1]) < end_year

\* the bibcodes of one column of one node that smp_snowball goes to fetch
SnowballPicks(col, start_year, end_year) ==
    IF col = None THEN <<>>
    ELSE SelectSeq(SplitBibcodes(col[1]),
                   LAMBDA bc : InInterval(bc, start_year, end_year))

\* the inner loop of smp_snowball over one column of one node: the Nodes it
\* appends to node_accumulator
SnowballColumn(col, start_year, end_year, failures) ==
    The({[i \in DOMAIN got |-> Fetched[got[i]]] :
         got \in {SelectSeq(SnowballPicks(col, start_year, end_year),
                            LAMBDA bc : getby_bibcode(bc, failures) # None)}})

\* CitationNetwork.smp_snowball(nodelist, start_year, end_year, scope)
smp_snowball(nl, start_year, end_year, scope, failures) ==
    Flatten([i \in DOMAIN nl |->
        IF scope = "cit"
        THEN SnowballColumn(nl[i].citation, start_year, end_year, failures)
        ELSE IF scope = "ref"
        THEN SnowballColumn(nl[i].reference, start_year, end_year, failures)
        ELSE IF scope = "citref"
        THEN SnowballColumn(nl[i].citation, start_year, end_year, failures)
             \o SnowballColumn(nl[i].reference, start_year, end_year, failures)
        ELSE <<>>])

\* the bibcodes smp_snowball goes to fetch, in order
SnowballFetches(nl, start_year, end_year, scope) ==
    Flatten([i \in DOMAIN nl |->
        IF scope = "cit"
        THEN SnowballPicks(nl[i].citation, start_year, end_year)
        ELSE IF scope = "ref"
        THEN SnowballPicks(nl[i].reference, start_year, end_year)
        ELSE IF scope = "citref"
        THEN SnowballPicks(nl[i].citation, start_year, end_year)
             \o SnowballPicks(nl[i].reference, start_year, end_year)
        ELSE <<>>])

\* the bibcodes smp_snowball queries ADS for
SnowballQueries(nl, start_year, end_year, scope) ==
    Range(SnowballFetches(nl, start_year, end_year, scope))

\* what attempts records of the fetches of a call
FetchLog(fetches, failures) ==
    [i \in DOMAIN fetches |-> <<fetches[i], Tries(1, failures[fetches[i]])>>]

\* ----------------------------------------------------------- regular edges

\* author_is_same on the author columns that occur, computed once
AuthorColumns == {Fetched[bc].author : bc \in Bibcodes}
SameAuthor == [a1 \in AuthorColumns |-> [a2 \in AuthorColumns |-> author_is_same(a1, a2)]]

\* the ids of the works listed in one column of a node for which
\* make_regular_edges writes an edge: the ones in the database whose first
\* author is not the node's
LinkedIds(nodes, node, col) ==
    IF col = None THEN <<>>
    ELSE The({[i \in DOMAIN kept |-> kept[i][1].id] :
              kept \in {SelectSeq(
                  [k \in DOMAIN SplitBibcodes(col[1]) |->
                      get_node(nodes, SplitBibcodes(col[1])[k])],
                  LAMBDA citation :
                      /\ citation # None
                      /\ ~SameAuthor[citation[1].author][node.author])}})

\* every tuple make_regular_edges hands to write_edge, in order
RegularEdges(nodes, nl, direction) ==
    Flatten([i \in DOMAIN nl |->
        The({[k \in DOMAIN citation_ids |->
                 IF direction = "fwd" THEN <<nl[i].id, citation_ids[k], None>>
                 ELSE <<citation_ids[k], nl[i].id, None>>]
             \o
             [k \in DOMAIN reference_ids |->
                 IF direction = "fwd" THEN <<reference_ids[k], nl[i].id, None>>
                 ELSE <<nl[i].id, reference_ids[k], None>>] :
             citation_ids \in {LinkedIds(nodes, nl[i], nl[i].citation)},
             reference_ids \in {LinkedIds(nodes, nl[i], nl[i].reference)}})])

\* CitationNetwork.make_regular_edges(direction): the edges table afterwards
\* and what the call raises.  The direction is looked at when the first edge
\* is about to be written, so an invalid one raises before any write, and
\* not at all when there is nothing to write.
make_regular_edges(nodes, edges, nl, direction) ==
    IF direction \in {"fwd", "bwd"}
    THEN [edges |-> The({write_edges(edges, edgelist) :
                            edgelist \in {RegularEdges(nodes, nl, direction)}}),
          ret |-> "None"]
    ELSE IF RegularEdges(nodes, nl, "bwd") = <<>>
    THEN [edges |-> edges, ret |-> "None"]
    ELSE [edges |-> edges, ret |-> "ValueError"]

\* ------------------------------------------------------------------ igraph

\* the (source, target) pairs g.add_edges is given
Arcs(edges) == {<<e[1], e[2]>> : e \in BagToSet(edges)}

\* g.add_edges raises when an endpoint is not one of the vertices 0..n
ArcsFit(edges, n) ==
    \A a \in Arcs(edges) : a[1] \in 0..n /\ a[2] \in 0..n

\* Graph.cocitation(): entry (i, j) is the number of vertices citing both
cocitation(arcs, n) ==
    [i \in 0..n |-> [j \in 0..n |->
        IF i = j THEN 0
        ELSE Cardinality({k \in 0..n : <<k, i>> \in arcs /\ <<k, j>> \in arcs})]]

\* Graph.bibcoupling(): entry (i, j) is the number of vertices both cite
bibcoupling(arcs, n) ==
    [i \in 0..n |-> [j \in 0..n |->
        IF i = j THEN 0
        ELSE Cardinality({k \in 0..n : <<i, k>> \in arcs /\ <<j, k>> \in arcs})]]

\* the vertices of the weakly connected component of v
RECURSIVE Component(_, _)
Component(seen, arcs) ==
    LET more == seen \cup {a[2] : a \in {b \in arcs : b[1] \in seen}}
                     \cup {a[1] : a \in {b \in arcs : b[2] \in seen}}
    IN  IF more = seen THEN seen ELSE Component(more, arcs)

\* the membership vector (vertex v at index v + 1) of a partition of the
\* vertices 0..n given by the module of each vertex: the modules are
\* numbered in the order of their first vertex
Membership(module, n) ==
    [i \in 1..(n + 1) |->
        LET v == i - 1
            first == CHOOSE u \in module[v] : \A w \in module[v] : u <= w
        IN  Cardinality({CHOOSE u \in module[x] : \A w \in module[x] : u <= w :
                         x \in 0..(first - 1)})]

\* Graph.community_infomap(trials=1): the partitions it may return, each as
\* a membership vector.  No module reaches over two components; the model
\* takes the coarsest such partition (the components, which is what the
\* expected values of the repository's tests are) and the finest.  On a
\* graph without edges there is no flow to follow and the versions of igraph
\* differ: every vertex a module of its own, or all of them in one module.
community_infomap(arcs, n) ==
    {Membership([v \in 0..n |-> Component({v}, arcs)], n),
     Membership([v \in 0..n |-> {v}], n)}
    \cup (IF arcs = {} THEN {[i \in 1..(n + 1) |-> 0]} ELSE {})

\* --------------------------------------------------------- semsim edges

\* new_edges taking every entry that is not negative
NewEdgesFromZero(matrix, n) ==
    Flatten([r \in 1..(n + 1) |->
        [c \in 1..(n + 1) |-> <<r - 1, c - 1, Some(matrix[r - 1][c - 1])>>]])

\* the list new_edges of make_semsim_edges: every (i1, i2) with a positive
\* matrix entry, row by row, with the entry as weight
NewEdges(matrix, n) ==
    Flatten([r \in 1..(n + 1) |->
        LET row == [c \in 1..(n + 1) |-> <<r - 1, c - 1, Some(matrix[r - 1][c - 1])>>]
        IN  SelectSeq(row, LAMBDA e : e[3][1] > 0)])

\* make_semsim_edges without its second del_table_content('edges')
make_semsim_edges_appending(nodes, edges, nl, measure) ==
    LET n == Len(nl)
        regular == make_regular_edges(nodes, EmptyBag, nl, "bwd").edges
        arcs == Arcs(regular)
    IN  IF ~ArcsFit(regular, n)
        THEN [edges |-> regular, ret |-> "InternalError"]
        ELSE IF measure = "cocit"
        THEN [edges |-> write_edges(regular, NewEdges(cocitation(arcs, n), n)),
              ret |-> "None"]
        ELSE IF measure = "bibcp"
        THEN [edges |-> write_edges(regular, NewEdges(bibcoupling(arcs, n), n)),
              ret |-> "None"]
        ELSE [edges |-> regular, ret |-> "ValueError"]

\* CitationNetwork.make_semsim_edges(measure): the edges table afterwards
\* and what the call raises
make_semsim_edges(nodes, edges, nl, measure) ==
    LET n == Len(nl)
        regular == make_regular_edges(nodes, EmptyBag, nl, "bwd").edges
        arcs == Arcs(regular)
    IN  IF ~ArcsFit(regular, n)
        THEN [edges |-> regular, ret |-> "InternalError"]
        ELSE IF measure = "cocit"
        THEN [edges |-> write_edges(EmptyBag, NewEdges(cocitation(arcs, n), n)),
              ret |-> "None"]
        ELSE IF measure = "bibcp"
        THEN [edges |-> write_edges(EmptyBag, NewEdges(bibcoupling(arcs, n), n)),
              ret |-> "None"]
        ELSE [edges |-> regular, ret |-> "ValueError"]

\* ------------------------------------------------------------- modularity

\* the loop of assign_modularity: every node of the list gets the index of
\* the module its id is in
RECURSIVE SetClusters(_, _, _)
SetClusters(nodes, nl, membership) ==
    IF nl = <<>> THEN nodes
    ELSE SetClusters(set_node_cluster(nodes, Head(nl).id, membership[Head(nl).id + 1]),
                     Tail(nl), membership)

\* ---------------------------------------------------------------- actions

\* what last records of a call: the method, its arguments, and its result
\* ("None", "True", "False", or the exception it raises)
Call(op, args, ret) == [op |-> op, args |-> args, ret |-> ret]

\* the curated lists of a session, and any list of bibcodes ADS holds
SeedLists == UNION {[1..k -> Seeds] : k \in 0..MaxBatch}
BibcodeLists == UNION {[1..k -> Bibcodes] : k \in 0..MaxBatch}

\* the edges and edge lists handed to write_edge / write_edges directly
RawIds == {1, 2}
RawWeights == {None, Some(0), Some(1)}
RawEdges == RawIds \X RawIds \X RawWeights
RawEdgeLists == {<<>>} \cup {<<e1, e2>> : e1 \in RawEdges, e2 \in RawEdges}

\* CitationNetwork(filename) on a new database file
Init ==
    /\ db_nodes = <<>>
    /\ db_edges = EmptyBag
    /\ nodelist = <<>>
    /\ last = Call("CitationNetwork", <<>>, "None")
    /\ attempts = <<>>

\* CitationNetwork(filename) on the database file as it is now
Open ==
    /\ nodelist' = get_all_nodes(db_nodes)
    /\ last' = Call("CitationNetwork", <<>>, "None")
    /\ attempts' = <<>>
    /\ UNCHANGED <<db_nodes, db_edges>>

\* sample('judgement') with self.bibcode_list set; ADS fails as in failures
SampleJudgement(bibcode_list, failures) ==
    /\ db_nodes' = write_nodes(db_nodes,
            [i \in DOMAIN bibcode_list |-> getby_bibcode(bibcode_list[i], failures)])
    /\ last' = Call("sample", <<"judgement">>, "None")
    /\ attempts' = <<>>
    /\ UNCHANGED <<db_edges, nodelist>>

\* the same call with the queries it sends to ADS kept in attempts
SampleJudgementLogged(bibcode_list, failures) ==
    /\ db_nodes' = write_nodes(db_nodes,
            [i \in DOMAIN bibcode_list |-> getby_bibcode(bibcode_list[i], failures)])
    /\ last' = Call("sample", <<"judgement">>, "None")
    /\ attempts' = FetchLog(bibcode_list, failures)
    /\ UNCHANGED <<db_edges, nodelist>>

\* sample('snowball') with self.snowball set; ADS fails as in failures
SampleSnowball(start_year, end_year, scope, failures) ==
    /\ db_nodes' = write_nodes(db_nodes,
            LET acc == smp_snowball(nodelist, start_year, end_year, scope, failures)
            IN  [i \in DOMAIN acc |-> Some(acc[i])])
    /\ last' = Call("sample", <<"snowball">>, "None")
    /\ attempts' = <<>>
    /\ UNCHANGED <<db_edges, nodelist>>

\* the same call with the queries it sends to ADS kept in attempts
SampleSnowballLogged(start_year, end_year, scope, failures) ==
    /\ db_nodes' = write_nodes(db_nodes,
            LET acc == smp_snowball(nodelist, start_year, end_year, scope, failures)
            IN  [i \in DOMAIN acc |-> Some(acc[i])])
    /\ last' = Call("sample", <<"snowball">>, "None")
    /\ attempts' = FetchLog(SnowballFetches(nodelist, start_year, end_year, scope),
                            failures)
    /\ UNCHANGED <<db_edges, nodelist>>

\* sample(sampling_method) with any other method
SampleInvalid ==
    /\ last' = Call("sample", <<"both">>, "ValueError")
    /\ attempts' = <<>>
    /\ UNCHANGED <<db_nodes, db_edges, nodelist>>

\* db.write_node(getby_bibcode(bibcode))
WriteNode(bibcode) ==
    LET node == Fetched[bibcode]
    IN  /\ db_nodes' = write_node(db_nodes, node)
        /\ last' = Call("write_node", <<bibcode>>,
                        IF ~is_in_db_node(db_nodes, node) THEN "True" ELSE "False")
        /\ attempts' = <<>>
        /\ UNCHANGED <<db_edges, nodelist>>

\* db.write_edge(edge)
WriteEdge(edge) ==
    /\ BagCardinality(db_edges) < MaxEdgeRows
    /\ db_edges' = write_edge(db_edges, edge)
    /\ last' = Call("write_edge", <<edge>>, "None")
    /\ attempts' = <<>>
    /\ UNCHANGED <<db_nodes, nodelist>>

\* db.write_edges(edgelist)
WriteEdges(edgelist) ==
    /\ BagCardinality(db_edges) < MaxEdgeRows
    /\ db_edges' = write_edges(db_edges, edgelist)
    /\ last' = Call("write_edges", <<edgelist>>, "None")
    /\ attempts' = <<>>
    /\ UNCHANGED <<db_nodes, nodelist>>

\* make_regular_edges(direction)
MakeRegularEdges(direction) ==
    \E r \in {make_regular_edges(db_nodes, db_edges, nodelist, direction)} :
        /\ db_edges' = r.edges
        /\ last' = Call("make_regular_edges", <<direction>>, r.ret)
        /\ attempts' = <<>>
        /\ UNCHANGED <<db_nodes, nodelist>>

\* make_semsim_edges(measure)
MakeSemsimEdges(measure) ==
    \E r \in {make_semsim_edges(db_nodes, db_edges, nodelist, measure)} :
        /\ db_edges' = r.edges
        /\ last' = Call("make_semsim_edges", <<measure>>, r.ret)
        /\ attempts' = <<>>
        /\ UNCHANGED <<db_nodes, nodelist>>

\* assign_modularity(): add_edges raises when an edge row names a vertex the
\* graph does not have; otherwise infomap returns one of its partitions
AssignModularity ==
    LET n == Len(nodelist)
    IN  /\ IF ~ArcsFit(db_edges, n)
           THEN /\ db_nodes' = db_nodes
                /\ last' = Call("assign_modularity", <<>>, "InternalError")
           ELSE \E membership \in community_infomap(Arcs(db_edges), n) :
                /\ db_nodes' = SetClusters(db_nodes, nodelist, membership)
                /\ last' = Call("assign_modularity", <<>>, "None")
        /\ attempts' = <<>>
        /\ UNCHANGED <<db_edges, nodelist>>

\* a session, any number of times in any order: construct, sample, generate
\* edges
Next ==
    \/ Open
    \/ \E bibcode_list \in SeedLists : \E down \in SUBSET Range(bibcode_list) :
          SampleJudgement(bibcode_list, FailuresOf(down))
    \/ \E years \in YearIntervals, scope \in ScopeArgs :
          \E down \in SUBSET SnowballQueries(nodelist, years[1], years[2], scope) :
             SampleSnowball(years[1], years[2], scope, FailuresOf(down))
    \/ \E direction \in DirectionArgs : MakeRegularEdges(direction)
    \/ \E measure \in MeasureArgs : MakeSemsimEdges(measure)

Spec == Init /\ [][Next]_vars

\* the whole pipeline with its supported arguments and ADS answering:
\* construct, sample, generate edges, assign modularity
NextPipeline ==
    \/ Open
    \/ \E bibcode_list \in SeedLists : SampleJudgement(bibcode_list, NoFailures)
    \/ \E years \in YearIntervals, scope \in {"cit", "ref", "citref"} :
          SampleSnowball(years[1], years[2], scope, NoFailures)
    \/ \E direction \in {"fwd", "bwd"} : MakeRegularEdges(direction)
    \/ \E measure \in {"cocit", "bibcp"} : MakeSemsimEdges(measure)
    \/ AssignModularity

SpecPipeline == Init /\ [][NextPipeline]_vars

\* the node writes: construction, sampling (any list of bibcodes) and
\* db.write_node
NextNodes ==
    \/ Open
    \/ \E bibcode_list \in BibcodeLists : \E down \in SUBSET Range(bibcode_list) :
          SampleJudgement(bibcode_list, FailuresOf(down))
    \/ \E years \in YearIntervals, scope \in ScopeArgs :
          \E down \in SUBSET SnowballQueries(nodelist, years[1], years[2], scope) :
             SampleSnowball(years[1], years[2], scope, FailuresOf(down))
    \/ SampleInvalid
    \/ \E bibcode \in Bibcodes : WriteNode(bibcode)

SpecNodes == Init /\ [][NextNodes]_vars

\* curated lists that start from the cited article or from a citing one, and
\* an interval that holds every year and one that has a year at its end and
\* a year outside it
FetchIntervals == {<<1900, 2020>>, <<1900, 1975>>}
FetchLists == UNION {[1..k -> {BibS, BibA}] : k \in 0..MaxBatch}

\* sampling against an ADS that raises any number of times on each bibcode
\* it is queried for
NextFetch ==
    \/ Open
    \/ \E bibcode_list \in FetchLists :
          \E failures \in FailurePatterns(Range(bibcode_list)) :
             SampleJudgementLogged(bibcode_list, failures)
    \/ \E years \in FetchIntervals : \E scope \in {"cit", "ref", "citref"} :
          \E failures \in FailurePatterns(
                 SnowballQueries(nodelist, years[1], years[2], scope)) :
             SampleSnowballLogged(years[1], years[2], scope, failures)

SpecFetch == Init /\ [][NextFetch]_vars

\* the edges table written directly: write_edge and write_edges with any
\* arguments
NextEdges ==
    \/ \E edge \in RawEdges : WriteEdge(edge)
    \/ \E edgelist \in RawEdgeLists : WriteEdges(edgelist)

SpecEdges == Init /\ [][NextEdges]_vars

\* ------------------------------------------------------------ author names

\* the names the repository's tests give author_is_same, as author columns
BurbidgeXY == <<"B", "u", "r", "b", "i", "d", "g", "e", ",", " ", "X", ".",
    " ", "Y", ".">>
BurbidgeAB == <<"B", "u", "r", "b", "i", "d", "g", "e", ",", " ", "A", ".",
    " ", "B", ".">>
ArpA == <<"A", "r", "p", ",", " ", "A", ".">>
ArpHans == <<"A", "r", "p", ",", " ", "H", "a", "n", "s">>
BergmannHansAlbert == <<"B", "e", "r", "g", "m", "a", "n", "n", ",", " ",
    "H", "a", "n", "s", " ", "A", "l", "b", "e", "r", "t">>
BergH == <<"B", "e", "r", "g", ",", " ", "H", ".">>
BurbidgeXenyaYakupova == <<"B", "u", "r", "b", "i", "d", "g", "e", ",",
    " ", "X", "e", "n", "y", "a", " ", "Y", "a", "k", "u", "p", "o", "v",
    "a">>
AmbartsumyanV == <<"A", "m", "b", "a", "r", "t", "s", "u", "m", "y", "a",
    "n", ",", " ", "V", ".">>
AmbartsumianVA == <<"A", "m", "b", "a", "r", "t", "s", "u", "m", "i", "a",
    "n", ",", " ", "V", ".", " ", "A", ".">>
AmbarcumanViktor == <<"A", "m", "b", "a", "r", "c", "u", "m", "a", "n",
    ",", " ", "V", "i", "k", "t", "o", "r">>
AuthorNames ==
    {BurbidgeXY, BurbidgeAB, ArpA, ArpHans, BergmannHansAlbert, BergH,
     BurbidgeXenyaYakupova, AmbartsumyanV, AmbartsumianVA, AmbarcumanViktor,
     ArpH, ColeC}

\* author_is_same on those names, computed once
SameName == [a1 \in AuthorNames |-> [a2 \in AuthorNames |-> author_is_same(a1, a2)]]

\* author_is_same(node1, node2) on two rows with these author columns
AuthorIsSame(author1, author2) ==
    /\ last' = Call("author_is_same", <<author1, author2>>,
                    IF SameName[author1][author2] THEN "True" ELSE "False")
    /\ attempts' = <<>>
    /\ UNCHANGED <<db_nodes, db_edges, nodelist>>

\* author_is_same on any two of the names
NextAuthors ==
    \E author1 \in AuthorNames, author2 \in AuthorNames : AuthorIsSame(author1, author2)

SpecAuthors == Init /\ [][NextAuthors]_vars

\* ----------------------------------------------------------------- claims

\* the bibcodes and the ids of the stored nodes
StoredBibcodes == {db_nodes[i].bibcode : i \in DOMAIN db_nodes}
StoredIds == {db_nodes[i].id : i \in DOMAIN db_nodes}

NodeIdentifiersUnique ==
    \A i, j \in DOMAIN db_nodes : db_nodes[i].bibcode = db_nodes[j].bibcode => i = j

\* C1: after every node write no two stored nodes have the same identifier,
\* and a write_node of an identifier that is already stored reports False
\* and leaves the nodes table as it was
C1_NodeIdentifiersUnique ==
    [][/\ NodeIdentifiersUnique'
       /\ \A bc \in Bibcodes :
            (last'.op = "write_node" /\ last'.args = <<bc>> /\ bc \in StoredBibcodes)
                => (db_nodes' = db_nodes /\ last'.ret = "False")]_vars

\* a write_node of the one stored identifier has reported False
C1_Witness ==
    /\ last.op = "write_node"
    /\ last.ret = "False"
    /\ Len(db_nodes) = 1
    /\ db_nodes[1].bibcode = last.args[1]

\* at most one row per ordered (source, target) pair
OneEdgePerPair(edges) ==
    \A e1, e2 \in BagToSet(edges) :
        /\ CopiesIn(e1, edges) = 1
        /\ (e1[1] = e2[1] /\ e1[2] = e2[2]) => e1 = e2

\* the ordered pair of the edge is stored
PairStored(edges, edge) ==
    \E e \in BagToSet(edges) : e[1] = edge[1] /\ e[2] = edge[2]

\* C2: after every edge write the edges table holds at most one edge per
\* ordered (source, target) pair, every row stored before is still there,
\* and a write_edge of a pair that is already stored, with the same or with
\* another weight, changes nothing
C2_OneEdgePerPair ==
    [][/\ OneEdgePerPair(db_edges')
       /\ \A e \in BagToSet(db_edges) : CopiesIn(e, db_edges') = CopiesIn(e, db_edges)
       /\ \A edge \in RawEdges :
            (last'.op = "write_edge" /\ last'.args = <<edge>> /\ PairStored(db_edges, edge))
                => db_edges' = db_edges]_vars

\* a write_edge of a stored pair with another weight has left the one row
C2_Witness ==
    /\ last.op = "write_edge"
    /\ BagCardinality(db_edges) = 1
    /\ \E e \in BagToSet(db_edges) :
          /\ e[1] = last.args[1][1]
          /\ e[2] = last.args[1][2]
          /\ e[3] # last.args[1][3]

\* the identifiers in the citation columns / the reference columns of the
\* nodes a snowball pass goes through
ListedCitations(nl) ==
    {bc \in Bibcodes : \E i \in DOMAIN nl :
        nl[i].citation # None /\ bc \in Range(SplitBibcodes(nl[i].citation[1]))}
ListedReferences(nl) ==
    {bc \in Bibcodes : \E i \in DOMAIN nl :
        nl[i].reference # None /\ bc \in Range(SplitBibcodes(nl[i].reference[1]))}

\* the year prefix lies in the closed interval, and strictly inside it
InClosed(bc, start_year, end_year) ==
    start_year <= IntOf(bc[1]) /\ IntOf(bc[1]) <= end_year
StrictlyInside(bc, start_year, end_year) ==
    start_year < IntOf(bc[1]) /\ IntOf(bc[1]) < end_year

\* C3: a snowball pass over the citation lists (ADS answering every query)
\* samples every listed identifier whose year prefix lies in the closed
\* interval [start_year, end_year], its two ends included
C3_ClosedYearInterval ==
    [][\A years \in YearIntervals :
          SampleSnowball(years[1], years[2], "cit", NoFailures)
              => \A bc \in ListedCitations(nodelist) :
                    InClosed(bc, years[1], years[2]) => bc \in StoredBibcodes']_vars

\* C4: the scope selects the lists a snowball pass samples from (ADS
\* answering every query): 'cit' adds the identifiers of the citation lists
\* that lie inside the interval, 'ref' those of the reference lists, and
\* 'cit+ref' those of both
C4_ScopeSelectsLists ==
    [][\A years \in YearIntervals, scope \in {"cit", "ref", "cit+ref"} :
          SampleSnowball(years[1], years[2], scope, NoFailures)
              => LET lists == (IF scope \in {"cit", "cit+ref"}
                               THEN ListedCitations(nodelist) ELSE {})
                              \cup
                              (IF scope \in {"ref", "cit+ref"}
                               THEN ListedReferences(nodelist) ELSE {})
                 IN  StoredBibcodes' \ StoredBibcodes =
                        {bc \in lists : StrictlyInside(bc, years[1], years[2])}
                            \ StoredBibcodes]_vars

\* the calls that go through the nodes of the network
IteratingCalls ==
    {Call("sample", <<"snowball">>, "None"), Call("assign_modularity", <<>>, "None")}
    \cup {Call("make_regular_edges", <<d>>, "None") : d \in {"fwd", "bwd"}}
    \cup {Call("make_semsim_edges", <<m>>, "None") : m \in {"cocit", "bibcp"}}

\* C5: a snowball pass, make_regular_edges, make_semsim_edges and
\* assign_modularity go through every node that is in the network when they
\* are called, the nodes an earlier sample of the same object added included
C5_SeesEarlierNodes ==
    [][last' \in IteratingCalls
          => {nodelist[i].id : i \in DOMAIN nodelist} = StoredIds]_vars

\* the column names the bibcode
Names(col, bc) == col # None /\ bc \in Range(SplitBibcodes(col[1]))

\* by the lists of the two stored rows, citer cites cited
CitesRow(citer, cited) ==
    Names(cited.citation, citer.bibcode) \/ Names(citer.reference, cited.bibcode)

\* C6: every edge make_regular_edges adds has weight 0 and points from the
\* citing work to the cited work
C6_RegularEdgesCiterToCited ==
    [][\A direction \in {"fwd", "bwd"} :
          MakeRegularEdges(direction)
              => \A e \in BagToSet(db_edges') :
                    CopiesIn(e, db_edges') > CopiesIn(e, db_edges)
                        => /\ e[3] = Some(0)
                           /\ \E citer, cited \in Range(db_nodes) :
                                 /\ citer.id = e[1]
                                 /\ cited.id = e[2]
                                 /\ CitesRow(citer, cited)]_vars

\* C7: after make_regular_edges on an object that holds every stored node,
\* any two members of which one cites the other are joined by an edge,
\* whoever their authors are
C7_RegularEdgesComplete ==
    [][\A direction \in {"fwd", "bwd"} :
          (MakeRegularEdges(direction) /\ nodelist = get_all_nodes(db_nodes))
              => \A citer, cited \in Range(db_nodes) :
                    CitesRow(citer, cited)
                        => \E e \in BagToSet(db_edges') :
                              {e[1], e[2]} = {citer.id, cited.id}]_vars

\* C8: both ends of every stored edge are ids of stored nodes
C8_EdgeEndsAreMembers ==
    \A e \in BagToSet(db_edges) : e[1] \in StoredIds /\ e[2] \in StoredIds

\* make_semsim_edges has stored similarity edges between sampled nodes
C8_Witness ==
    /\ last = Call("make_semsim_edges", <<"bibcp">>, "None")
    /\ db_edges # EmptyBag
    /\ Len(db_nodes) > 2

\* C9: after make_semsim_edges the edges table holds no edge together with
\* its reverse and no edge from a node to itself
C9_OneEdgePerUnorderedPair ==
    (last.op = "make_semsim_edges" /\ last.ret = "None")
        => \A e \in BagToSet(db_edges) :
              /\ e[1] # e[2]
              /\ <<e[2], e[1], e[3]>> \notin BagToSet(db_edges)

\* the citations make_semsim_edges builds its graph from: (citer, cited) ids
\* of the listed works that are stored and have another first author
CitationArcs ==
    {a \in StoredIds \X StoredIds :
        \E n \in Range(nodelist), m \in Range(db_nodes) :
           /\ \/ a = <<m.id, n.id>> /\ Names(n.citation, m.bibcode)
              \/ a = <<n.id, m.id>> /\ Names(n.reference, m.bibcode)
           /\ ~SameAuthor[m.author][n.author]}

\* the similarity of two ids: the number of works citing both, or cited by both
Similarity(arcs, measure, i, j) ==
    IF measure = "cocit"
    THEN Cardinality({k \in StoredIds : <<k, i>> \in arcs /\ <<k, j>> \in arcs})
    ELSE Cardinality({k \in StoredIds : <<i, k>> \in arcs /\ <<j, k>> \in arcs})

\* the edge is a similarity edge: two ids and their positive similarity
IsSimilarityEdge(arcs, measure, e) ==
    /\ e[3] # None
    /\ e[1] # e[2]
    /\ e[3][1] > 0
    /\ e[3][1] = Similarity(arcs, measure, e[1], e[2])

\* C10: a make_semsim_edges that returns leaves in the edges table the
\* similarity edges of that call and nothing else: each once, no edge of
\* before the call that is not one of them, no citation edge
C10_SemsimReplacesEdges ==
    [][\A measure \in {"cocit", "bibcp"} :
          last' = Call("make_semsim_edges", <<measure>>, "None")
              => LET arcs == CitationArcs
                 IN  /\ \A e \in BagToSet(db_edges') :
                           /\ CopiesIn(e, db_edges') = 1
                           /\ IsSimilarityEdge(arcs, measure, e)
                     /\ \A e \in BagToSet(db_edges) :
                           ~IsSimilarityEdge(arcs, measure, e)
                               => e \notin BagToSet(db_edges')]_vars

\* make_semsim_edges has returned with similarity edges in the table
C10_Witness ==
    /\ last = Call("make_semsim_edges", <<"cocit">>, "None")
    /\ db_edges # EmptyBag

\* the citation relation of the network: the (citer, cited) ids of the
\* stored works of which one names the other in its lists
NetworkCitations ==
    {a \in StoredIds \X StoredIds :
        \E citer, cited \in Range(db_nodes) :
           a = <<citer.id, cited.id>> /\ CitesRow(citer, cited)}

\* C11: after make_semsim_edges on an object that holds every stored node,
\* two members are joined by an edge iff the number of members citing both
\* ('cocit') or cited by both ('bibcp') is positive, and the weight of the
\* edge is that number
C11_SemsimWeights ==
    [][\A measure \in {"cocit", "bibcp"} :
          (/\ last' = Call("make_semsim_edges", <<measure>>, "None")
           /\ nodelist = get_all_nodes(db_nodes))
              => LET arcs == NetworkCitations
                 IN  \A i, j \in StoredIds :
                        i # j =>
                          LET count == Similarity(arcs, measure, i, j)
                              joining == {e \in BagToSet(db_edges') :
                                            e[1] = i /\ e[2] = j}
                          IN  /\ (count > 0) <=> (joining # {})
                              /\ \A e \in joining : e[3] = Some(count)]_vars

\* C12: make_semsim_edges with a measure other than 'cocit' and 'bibcp'
\* raises ValueError, whatever the network holds
C12_InvalidMeasureRaises ==
    [][\A measure \in MeasureArgs \ {"cocit", "bibcp"} :
          MakeSemsimEdges(measure) => last'.ret = "ValueError"]_vars

\* C13: a snowball pass with a scope that is none of the supported values
\* raises ValueError
C13_InvalidScopeRaises ==
    [][\A years \in YearIntervals :
       \A scope \in ScopeArgs \ {"cit", "ref", "citref", "cit+ref"} :
          SampleSnowball(years[1], years[2], scope, NoFailures)
              => last'.ret = "ValueError"]_vars

\* the partitions infomap returns on the graph whose vertices are the stored
\* nodes, as the zero-based module index of each node id: the modules are
\* numbered in the order of their first node.  No stored edge touches 0, so
\* they are the partitions of the vertices 0..n without the vertex 0.
NetworkPartitions ==
    {[v \in StoredIds |->
        LET first == CHOOSE u \in StoredIds :
                        /\ membership[u + 1] = membership[v + 1]
                        /\ \A w \in StoredIds :
                              membership[w + 1] = membership[v + 1] => u <= w
        IN  Cardinality({membership[u + 1] : u \in {w \in StoredIds : w < first}})] :
        membership \in community_infomap(Arcs(db_edges), Len(db_nodes))}

\* C14: after assign_modularity every stored node carries the zero-based
\* index of the module its vertex is in, for a partition infomap returns on
\* the graph of the stored nodes and edges; no node is without a label
C14_ModularityLabels ==
    last = Call("assign_modularity", <<>>, "None")
        => \E partition \in NetworkPartitions :
              \A i \in DOMAIN db_nodes :
                 db_nodes[i].cluster_id = Some(partition[db_nodes[i].id])

\* C15: assign_modularity on an empty edges table raises nothing and gives
\* every stored node the community 0
C15_NoEdgesAllZero ==
    (last.op = "assign_modularity" /\ db_edges = EmptyBag)
        => /\ last.ret = "None"
           /\ \A i \in DOMAIN db_nodes : db_nodes[i].cluster_id = Some(0)

\* C16: a judgement sample for which ADS fails on one of the bibcodes
\* raises a lookup error; it does not return with that bibcode passed over
C16_FetchFailureRaises ==
    [][\A bibcode_list \in BibcodeLists :
       \A down \in SUBSET Range(bibcode_list) :
          (down # {} /\ SampleJudgement(bibcode_list, FailuresOf(down)))
              => last'.ret = "LookupError"]_vars

\* the names are the same by the weighted score of the two ratios,
\* (initial_ratio + 9 * lastname_ratio) / 10 > 0.80, in exact fractions
WeightedSame(author1, author2) ==
    LET name1_split == Split(Split(author1, SemiSp)[1], CommaSp)
        name2_split == Split(Split(author2, SemiSp)[1], CommaSp)
        r1 == Ratio(Initial(name1_split), Initial(name2_split))
        r2 == Ratio(name1_split[1], name2_split[1])
    IN  r1[1] * r2[2] + 9 * r2[1] * r1[2] > 8 * r1[2] * r2[2]

\* C17: author_is_same answers True iff the weighted score of the initials'
\* ratio (weight 1) and the last names' ratio (weight 9) is above 0.80
C17_WeightedAuthorScore ==
    last.op = "author_is_same"
        => (last.ret = "True" <=> WeightedSame(last.args[1], last.args[2]))

\* the bibcodes of the fetches attempts records, in order
FetchedBibcodes(log) == [i \in DOMAIN log |-> log[i][1]]

\* C18: a snowball pass makes no ADS query for an identifier that is already
\* a node of the network when the pass starts: a stored in-interval
\* identifier costs zero provider calls
C18_NoFetchOfStoredNode ==
    [][last' = Call("sample", <<"snowball">>, "None")
          => \A i \in DOMAIN attempts' : attempts'[i][1] \notin StoredBibcodes]_vars

\* the identifiers the lists that scope selects name, over the rows nl
ScopeSelected(nl, scope) ==
    (IF scope \in {"cit", "citref", "cit+ref"} THEN ListedCitations(nl) ELSE {})
    \cup (IF scope \in {"ref", "citref", "cit+ref"} THEN ListedReferences(nl) ELSE {})

\* C19: a snowball pass removes and changes no stored node, and every node
\* it adds is named in a scope-selected citation / reference list of a node
\* stored when the pass started and has its year prefix inside the interval;
\* so nothing outside the interval, and nothing that only a node added in
\* the same pass names, is added.  (The step is the pass with this interval
\* and scope exactly when it fetches what that pass fetches.)
C19_SnowballOneHopInInterval ==
    [][\A years \in FetchIntervals, scope \in {"cit", "ref", "citref"} :
          (/\ last' = Call("sample", <<"snowball">>, "None")
           /\ FetchedBibcodes(attempts')
                 = SnowballFetches(nodelist, years[1], years[2], scope))
          => LET selected == ScopeSelected(db_nodes, scope)
             IN  /\ Len(db_nodes') >= Len(db_nodes)
                 /\ \A i \in DOMAIN db_nodes : db_nodes'[i] = db_nodes[i]
                 /\ \A i \in (Len(db_nodes) + 1)..Len(db_nodes') :
                       /\ InClosed(db_nodes'[i].bibcode, years[1], years[2])
                       /\ db_nodes'[i].bibcode \in selected]_vars

\* a pass has added a node its snapshot names, and left out an identifier
\* that only a node outside the snapshot names
C19_Witness ==
    /\ last = Call("sample", <<"snowball">>, "None")
    /\ \E i \in DOMAIN attempts :
          /\ "item" \in Range(attempts[i][2])
          /\ attempts[i][1] \in StoredBibcodes \ {nodelist[k].bibcode : k \in DOMAIN nodelist}
    /\ \E bc \in ScopeSelected(db_nodes, "citref") \ ScopeSelected(nodelist, "citref") :
          bc \notin StoredBibcodes

\* C20: for every identifier a sampling call goes to fetch it makes at least
\* one and at most 5 ADS attempts, and none after the first that succeeds;
\* the call ends, with every fetch failing too
C20_AtMostFiveAttempts ==
    last.op = "sample"
        => \A i \in DOMAIN attempts :
              /\ Len(attempts[i][2]) >= 1
              /\ Len(attempts[i][2]) <= 5
              /\ \A k \in 1..(Len(attempts[i][2]) - 1) : attempts[i][2][k] # "item"

\* a call has had one fetch answered at its fifth attempt, after four
\* failing ones, and another at its first
C20_Witness ==
    /\ last.op = "sample"
    /\ \E i \in DOMAIN attempts :
          attempts[i][2] = <<"error", "error", "error", "error", "item">>
    /\ \E i \in DOMAIN attempts : attempts[i][2] = <<"item">>

\* C21: a make_semsim_edges call that raises ValueError for its measure
\* leaves the edges table as it was before the call: no edge deleted, none
\* added
C21_InvalidMeasureKeepsEdges ==
    [][\A measure \in MeasureArgs \ {"cocit", "bibcp"} :
          last' = Call("make_semsim_edges", <<measure>>, "ValueError")
              => db_edges' = db_edges]_vars

====
